---- MODULE Spec2Model ----
(***************************************************************************)
(* Model of the generic-statics crate: Namespace::generic_static, the      *)
(* per-instantiation asm block that reserves a zero-filled static, and the *)
(* cfg-selected backend that computes its address.                         *)
(*                                                                         *)
(* A behaviour is one build followed by one run of the built binary:       *)
(*   configure -> Compile -> Emit* (the assembler lays the blocks out in   *)
(*   the section, in any order) -> Link (the section gets its address and  *)
(*   is loaded) -> threads call generic_static and load/store through the  *)
(*   references it returns.                                                *)
(***************************************************************************)
EXTENDS Integers, Sequences, FiniteSets, TLC

\* ------------------------------------------------------------------ bounds
\* The largest number of (namespace, type) pairs the modelled program uses.
MaxInst == 3

\* ------------------------------------------------------- program universe
Threads == {"t1", "t2"}

\* define_namespace!(Test); define_namespace!(Other);
Namespaces == {"Test", "Other"}

\* The Zeroable types the modelled programs request (those of the tests).
Types == {"AtomicUsize", "AtomicIsize", "PhantomUsize", "PhantomIsize"}

\* mem::size_of::<T>() on the supported 64-bit targets.
size_of(t) == IF t \in {"AtomicUsize", "AtomicIsize"} THEN 8 ELSE 0

\* mem::align_of::<T>() on the supported 64-bit targets.
align_of(t) == IF t \in {"AtomicUsize", "AtomicIsize"} THEN 8 ELSE 1

\* The (namespace, type) pairs a program may call generic_static with.
Requests == (({"Test"} \X Types) \cup {<<"Other", "AtomicUsize">>})

Programs == {P \in SUBSET Requests : Cardinality(P) >= 1 /\ Cardinality(P) <= MaxInst}

\* Values a caller stores through an atomic slot.
Values == {42, 258}

\* Build targets explored: (target_os, target_arch).
TargetOS == {"linux", "macos", "windows", "android"}
TargetArch == {"x86_64", "aarch64", "riscv64"}
Targets == TargetOS \X TargetArch

\* Addresses at which the linker/loader may place the section (not on a
\* page boundary, so that both halves of adrp + add matter).
SectionBases == {4160}

\* Addresses of the instruction after a `lea` (its rip).
CodeAddrs == {8192}

\* ptr::null()
Null == 0

\* ------------------------------------------------------------ pure helpers
cmp_max_NoMax(a, b) == a

\* const fn cmp_max
cmp_max(a, b) == IF a > b THEN a ELSE b

RECURSIVE ilog2_OffByOne(_)
ilog2_OffByOne(a) == IF a <= 2 THEN 0 ELSE 1 + ilog2_OffByOne(a \div 2)

\* usize::ilog2: the floor of the base-2 logarithm.
RECURSIVE ilog2(_)
ilog2(a) == IF a <= 1 THEN 0 ELSE 1 + ilog2(a \div 2)

RECURSIVE Pow2(_)
Pow2(p) == IF p = 0 THEN 1 ELSE 2 * Pow2(p - 1)

\* `size = const { cmp_max(mem::size_of::<T>(), 1) }`
SizeOperand(t) == cmp_max(size_of(t), 1)

\* `align = const { mem::align_of::<T>().ilog2() }`
AlignOperand(t) == ilog2(align_of(t))

TypeIdOperand_Unused(n, t) == <<"_", "_">>

TypeIdOperand_IgnoresT(n, t) == <<n, "_">>

TypeIdOperand_IgnoresSelf(n, t) == <<"_", t>>

\* `let type_id = TypeId::of::<(Self, T)> as *const ()`: one value per pair.
TypeIdOperand(n, t) == <<n, t>>

InlineNever_Ignored == FALSE

\* #[inline(never)]: the body (and its asm block) is not copied into callers.
InlineNever == TRUE

\* Which copy of the body a call from thread th runs.
CopyOf(th) == IF InlineNever THEN "generic_static" ELSE th

\* The asm block of one copy of one instantiation: its operands are all that
\* tells two instantiations' bodies apart, and identical bodies are merged.
BlockKey(k, th) ==
    [type_id |-> TypeIdOperand(k[1], k[2]),
     size    |-> SizeOperand(k[2]),
     align   |-> AlignOperand(k[2]),
     copy    |-> CopyOf(th)]

Blocks(P) == {BlockKey(k, th) : k \in P, th \in Threads}

\* Every block any program of the universe can contain.
AllBlocks == Blocks(Requests)

\* ---------------------------------------------------------- cfg selection
AppleOS == {"macos", "ios", "tvos"}
ElfOS == {"none", "linux", "freebsd"}

\* The five #[cfg(...)] unsafe blocks; "none" when no block is compiled in.
Backend(tgt) ==
    CASE tgt[2] = "aarch64" /\ tgt[1] \in AppleOS     -> "macho_adrp"
      [] tgt[2] = "aarch64" /\ tgt[1] \in ElfOS       -> "elf_adrp"
      [] tgt[2] = "x86_64"  /\ tgt[1] \in AppleOS     -> "macho_lea"
      [] tgt[2] = "x86_64"  /\ tgt[1] \in ElfOS       -> "elf_lea"
      [] tgt[2] = "x86_64"  /\ tgt[1] = "windows"     -> "coff_lea"
      [] OTHER                                        -> "none"

\* #[cfg(not(any(target_os = ...)))] std::compile_error!(...)
CompileError(tgt) == tgt[1] \notin (ElfOS \cup AppleOS \cup {"windows"})

\* ------------------------------------------------------------- assembler
\* `.p2align {align}, 0`: zero padding up to the next multiple of 2^align.
P2Align(img, p) ==
    LET a == Pow2(p)
        pad == (a - (Len(img) % a)) % a
    IN img \o [i \in 1..pad |-> 0]

DotZero_Ones(n) == [i \in 1..n |-> 255]

\* `.zero {size}`: size bytes of zero.
DotZero(n) == [i \in 1..n |-> 0]

\* ------------------------------------------------------- caller accesses
\* AtomicUsize::store / load through the returned reference (little endian).
RECURSIVE ShiftBytes(_, _)
ShiftBytes(v, i) == IF i = 0 THEN v ELSE ShiftBytes(v \div 256, i - 1)

to_bytes(v, n) == [i \in 1..n |-> ShiftBytes(v, i - 1) % 256]

RECURSIVE from_bytes(_, _, _)
from_bytes(m, a, n) ==
    IF n = 0 THEN 0 ELSE m[a] + 256 * from_bytes(m, a + 1, n - 1)

\* ------------------------------------------------------------------ state
VARIABLES
    target,    \* the (os, arch) the crate is built for
    program,   \* the (namespace, type) pairs the program calls
    phase,     \* "configure", "build_failed", "assemble", "run"
    image,     \* the section's bytes laid out so far
    salign,    \* the section's alignment: the largest .p2align seen
    labels,    \* asm block -> offset of its `1:` label in the section
    base,      \* the section's load address (Null before Link)
    mem,       \* the loaded section: address -> byte
    pc,        \* per thread: "idle", "asm", "assert", "ref", "panicked"
    key,       \* per thread: the (namespace, type) of its current call
    addr,      \* per thread: the local `addr`
    hist       \* per pair: <<>>, or <<v>> for the last value v stored through it

vars == <<target, program, phase, image, salign, labels, base, mem,
          pc, key, addr, hist>>

buildVars == <<target, program, image, salign, labels, base>>

NoKey == <<"-", "-">>

Init ==
    /\ target \in Targets
    /\ program \in Programs
    /\ phase = "configure"
    /\ image = <<>>
    /\ salign = 1
    /\ labels = <<>>
    /\ base = Null
    /\ mem = <<>>
    /\ pc = [th \in Threads |-> "idle"]
    /\ key = [th \in Threads |-> NoKey]
    /\ addr = [th \in Threads |-> Null]
    /\ hist = [k \in program |-> <<>>]

\* ------------------------------------------------------------- the build
\* The unsupported-OS guard refuses the build.
CompileFail ==
    /\ phase = "configure"
    /\ CompileError(target)
    /\ phase' = "build_failed"
    /\ UNCHANGED <<buildVars, mem, pc, key, addr, hist>>

\* Any other target compiles, with or without a backend block.
CompileOk ==
    /\ phase = "configure"
    /\ ~CompileError(target)
    /\ phase' = "assemble"
    /\ UNCHANGED <<buildVars, mem, pc, key, addr, hist>>

\* The asm block of one instantiation is assembled into the section:
\*   .pushsection ... / .p2align {align}, 0 / 1: .zero {size} / .popsection
Emit(b) ==
    /\ phase = "assemble"
    /\ Backend(target) # "none"
    /\ b \in Blocks(program)
    /\ b \notin DOMAIN labels
    /\ LET aligned == P2Align(image, b.align) IN
         /\ labels' = labels @@ (b :> Len(aligned))
         /\ image' = aligned \o DotZero(b.size)
    /\ salign' = cmp_max(salign, Pow2(b.align))
    /\ UNCHANGED <<target, program, phase, base, mem, pc, key, addr, hist>>

\* The linker places the section and the loader maps it.
Link(b) ==
    /\ phase = "assemble"
    /\ Backend(target) # "none" => Blocks(program) \subseteq DOMAIN labels
    /\ b \in SectionBases
    /\ b % salign = 0
    /\ base' = b
    /\ mem' = [a \in b..(b + Len(image) - 1) |-> image[a - b + 1]]
    /\ phase' = "run"
    /\ UNCHANGED <<target, program, image, salign, labels, pc, key, addr, hist>>

\* ----------------------------------------------------- generic_static<T>
Call_LazyInit(th, k) ==
    /\ phase = "run"
    /\ pc[th] = "idle"
    /\ k \in program
    /\ pc' = [pc EXCEPT ![th] = "asm"]
    /\ key' = [key EXCEPT ![th] = k]
    /\ addr' = [addr EXCEPT ![th] = Null]
    /\ mem' = [a \in DOMAIN mem |-> 0]
    /\ UNCHANGED <<buildVars, phase, hist>>

\* `let mut addr: *const () = ptr::null();` and the type_id computation.
Call(th, k) ==
    /\ phase = "run"
    /\ pc[th] = "idle"
    /\ k \in program
    /\ pc' = [pc EXCEPT ![th] = "asm"]
    /\ key' = [key EXCEPT ![th] = k]
    /\ addr' = [addr EXCEPT ![th] = Null]
    /\ UNCHANGED <<buildVars, phase, mem, hist>>

\* The address of label `1:` of the block of the body that thread th runs.
LabelAddr(th) == base + labels[BlockKey(key[th], th)]

\* `adrp {x}, 1f@PAGE` / `adrp {x}, 1f`: the 4 KiB page of the label.
Adrp(a) == (a \div 4096) * 4096

\* `add {x}, {x}, 1f@PAGEOFF` / `add {x}, {x}, :lo12:1f`: plus the low 12 bits.
AddLo12(x, a) == x + (a % 4096)

\* `lea {x}, [rip + 1f]`: rip plus the label's displacement from rip.
Lea(rip, a) == rip + (a - rip)

\* aarch64 macOS/iOS/tvOS: adrp + add, block in __DATA,__data.
AsmMachoAarch64(th) ==
    /\ phase = "run"
    /\ pc[th] = "asm"
    /\ Backend(target) = "macho_adrp"
    /\ pc' = [pc EXCEPT ![th] = "assert"]
    /\ addr' = [addr EXCEPT ![th] = AddLo12(Adrp(LabelAddr(th)), LabelAddr(th))]
    /\ UNCHANGED <<buildVars, phase, mem, key, hist>>

\* aarch64 none/Linux/FreeBSD: adrp + add, block in .bss.generic_statics.
AsmElfAarch64(th) ==
    /\ phase = "run"
    /\ pc[th] = "asm"
    /\ Backend(target) = "elf_adrp"
    /\ pc' = [pc EXCEPT ![th] = "assert"]
    /\ addr' = [addr EXCEPT ![th] = AddLo12(Adrp(LabelAddr(th)), LabelAddr(th))]
    /\ UNCHANGED <<buildVars, phase, mem, key, hist>>

\* x86_64 macOS/iOS/tvOS: rip-relative lea, block in __DATA,__data.
AsmMachoX86(th) ==
    /\ phase = "run"
    /\ pc[th] = "asm"
    /\ Backend(target) = "macho_lea"
    /\ \E rip \in CodeAddrs :
         addr' = [addr EXCEPT ![th] = Lea(rip, LabelAddr(th))]
    /\ pc' = [pc EXCEPT ![th] = "assert"]
    /\ UNCHANGED <<buildVars, phase, mem, key, hist>>

\* x86_64 none/Linux/FreeBSD: rip-relative lea, block in .bss.generic_statics.
AsmElfX86(th) ==
    /\ phase = "run"
    /\ pc[th] = "asm"
    /\ Backend(target) = "elf_lea"
    /\ \E rip \in CodeAddrs :
         addr' = [addr EXCEPT ![th] = Lea(rip, LabelAddr(th))]
    /\ pc' = [pc EXCEPT ![th] = "assert"]
    /\ UNCHANGED <<buildVars, phase, mem, key, hist>>

\* x86_64 Windows: rip-relative lea, block in .bss.generic_statics ("bw").
AsmCoffX86(th) ==
    /\ phase = "run"
    /\ pc[th] = "asm"
    /\ Backend(target) = "coff_lea"
    /\ \E rip \in CodeAddrs :
         addr' = [addr EXCEPT ![th] = Lea(rip, LabelAddr(th))]
    /\ pc' = [pc EXCEPT ![th] = "assert"]
    /\ UNCHANGED <<buildVars, phase, mem, key, hist>>

\* No cfg block matches: control falls through to the assert, addr untouched.
AsmNone(th) ==
    /\ phase = "run"
    /\ pc[th] = "asm"
    /\ Backend(target) = "none"
    /\ pc' = [pc EXCEPT ![th] = "assert"]
    /\ UNCHANGED <<buildVars, phase, mem, key, addr, hist>>

AssertCond_Always(a) == TRUE

\* `assert!(!addr.is_null(), "unsupported platform")`
AssertCond(a) == a # Null

\* The assert fails: the call panics.
AssertPanic(th) ==
    /\ phase = "run"
    /\ pc[th] = "assert"
    /\ ~AssertCond(addr[th])
    /\ pc' = [pc EXCEPT ![th] = "panicked"]
    /\ UNCHANGED <<buildVars, phase, mem, key, addr, hist>>

\* `unsafe { &*addr.cast::<T>() }`: the reference is returned.
Return(th) ==
    /\ phase = "run"
    /\ pc[th] = "assert"
    /\ AssertCond(addr[th])
    /\ pc' = [pc EXCEPT ![th] = "ref"]
    /\ UNCHANGED <<buildVars, phase, mem, key, addr, hist>>

\* ------------------------------------------------------------ the caller
\* a.store(v, Ordering::Relaxed) through a returned reference.
Store(th, v) ==
    /\ phase = "run"
    /\ pc[th] = "ref"
    /\ size_of(key[th][2]) > 0
    /\ LET n == size_of(key[th][2])
           bytes == to_bytes(v, n)
       IN mem' = [a \in DOMAIN mem |->
                    IF a >= addr[th] /\ a < addr[th] + n
                    THEN bytes[a - addr[th] + 1] ELSE mem[a]]
    /\ hist' = [hist EXCEPT ![key[th]] = <<v>>]
    /\ UNCHANGED <<buildVars, phase, pc, key, addr>>

\* The caller lets go of the reference.
Drop(th) ==
    /\ phase = "run"
    /\ pc[th] = "ref"
    /\ pc' = [pc EXCEPT ![th] = "idle"]
    /\ key' = [key EXCEPT ![th] = NoKey]
    /\ addr' = [addr EXCEPT ![th] = Null]
    /\ UNCHANGED <<buildVars, phase, mem, hist>>

Next ==
    \/ CompileFail
    \/ CompileOk
    \/ \E b \in AllBlocks : Emit(b)
    \/ \E b \in SectionBases : Link(b)
    \/ \E th \in Threads, k \in Requests : Call(th, k)
    \/ \E th \in Threads : AsmMachoAarch64(th)
    \/ \E th \in Threads : AsmElfAarch64(th)
    \/ \E th \in Threads : AsmMachoX86(th)
    \/ \E th \in Threads : AsmElfX86(th)
    \/ \E th \in Threads : AsmCoffX86(th)
    \/ \E th \in Threads : AsmNone(th)
    \/ \E th \in Threads : AssertPanic(th)
    \/ \E th \in Threads : Return(th)
    \/ \E th \in Threads, v \in Values : Store(th, v)
    \/ \E th \in Threads : Drop(th)

Spec == Init /\ [][Next]_vars

\* ================================================================ claims
Holds(th) == phase = "run" /\ pc[th] = "ref"

TypeOf(th) == key[th][2]

\* The value an atomic load through thread th's reference yields.
Load(th) == from_bytes(mem, addr[th], size_of(TypeOf(th)))

SlotBytes(th) == [i \in 1..size_of(TypeOf(th)) |-> mem[addr[th] + i - 1]]

\* The byte ranges [a1, a1 + n1) and [a2, a2 + n2) share no byte.
Disjoint(a1, n1, a2, n2) == a1 + n1 <= a2 \/ a2 + n2 <= a1

Written == {k \in program : hist[k] # <<>>}

\* ---- C1
\* C1: idempotent identity. Whatever calls and stores came before, two
\* references obtained for the same (namespace, type) hold the same address.
C1_IdempotentIdentity ==
    \A th1, th2 \in Threads :
        (Holds(th1) /\ Holds(th2) /\ key[th1] = key[th2]) => addr[th1] = addr[th2]

C1_Witness ==
    /\ Holds("t1") /\ Holds("t2")
    /\ key["t1"] = key["t2"]
    /\ hist[key["t1"]] = <<42>>

\* ---- C2
\* C2: type discrimination. In one namespace, the slots of two distinct types
\* (also of equal size and alignment) have different addresses and their
\* byte ranges do not overlap.
C2_TypeDiscrimination ==
    \A th1, th2 \in Threads :
        (Holds(th1) /\ Holds(th2) /\ key[th1][1] = key[th2][1]
           /\ TypeOf(th1) # TypeOf(th2))
        => /\ addr[th1] # addr[th2]
           /\ Disjoint(addr[th1], size_of(TypeOf(th1)),
                       addr[th2], size_of(TypeOf(th2)))

C2_Witness ==
    /\ Holds("t1") /\ Holds("t2")
    /\ key["t1"] = <<"Test", "AtomicUsize">>
    /\ key["t2"] = <<"Test", "AtomicIsize">>

\* ---- C3
\* C3: namespace discrimination. The slots of one type under two distinct
\* namespaces have different addresses, do not overlap, and a store through
\* one is not observed through the other: the unwritten one still loads 0.
C3_NamespaceDiscrimination ==
    \A th1, th2 \in Threads :
        (Holds(th1) /\ Holds(th2) /\ key[th1][1] # key[th2][1]
           /\ TypeOf(th1) = TypeOf(th2))
        => /\ addr[th1] # addr[th2]
           /\ Disjoint(addr[th1], size_of(TypeOf(th1)),
                       addr[th2], size_of(TypeOf(th2)))
           /\ (hist[key[th2]] = <<>> => Load(th2) = 0)

C3_Witness ==
    /\ Holds("t1") /\ Holds("t2")
    /\ key["t1"] = <<"Test", "AtomicUsize">>
    /\ key["t2"] = <<"Other", "AtomicUsize">>
    /\ hist[key["t1"]] = <<42>>
    /\ hist[key["t2"]] = <<>>

\* ---- C4
\* C4: zero-initialization. As long as nothing was stored through a pair,
\* every byte read through a reference to its slot is zero, whatever calls
\* were made and whatever was stored to other slots.
C4_ZeroInitialized ==
    \A th \in Threads :
        (Holds(th) /\ hist[key[th]] = <<>>)
        => \A i \in 1..size_of(TypeOf(th)) : SlotBytes(th)[i] = 0

C4_Witness ==
    \E th \in Threads :
        /\ Holds(th)
        /\ size_of(TypeOf(th)) > 0
        /\ hist[key[th]] = <<>>
        /\ Cardinality(Written) = 2

\* ---- C5
\* A reference to a pair that was stored to loads the last value stored.
C5_Persistence ==
    \A th \in Threads :
        (Holds(th) /\ hist[key[th]] # <<>>) => <<Load(th)>> = hist[key[th]]

\* A step that stores nothing through a pair leaves its slot's bytes alone.
C5_Frame ==
    \A th \in Threads :
        (Holds(th) /\ pc'[th] = "ref" /\ hist'[key[th]] = hist[key[th]])
        => SlotBytes(th)' = SlotBytes(th)

\* C5: mutation persistence and isolation. A reference to a pair that was
\* stored to loads the last value stored through that pair, and a step that
\* does not store through a pair leaves the bytes of its slot as they were.
C5_MutationPersistence == []C5_Persistence /\ [][C5_Frame]_vars

C5_Witness ==
    /\ Holds("t1") /\ Holds("t2")
    /\ key["t1"][1] = key["t2"][1]
    /\ TypeOf("t1") # TypeOf("t2")
    /\ size_of(TypeOf("t2")) > 0
    /\ hist[key["t1"]] = <<258>>
    /\ hist[key["t2"]] = <<>>
    /\ Load("t1") = 258
    /\ Load("t2") = 0

\* ---- C6
\* C6: zero-sized types. Every block reserves at least one byte, so no two
\* blocks start at the same offset and the slots of two different
\* zero-sized types have different addresses.
C6_ZeroSizedDiscrimination ==
    /\ \A b1, b2 \in DOMAIN labels :
           b1 # b2 => labels[b1] # labels[b2]
    /\ \A th1, th2 \in Threads :
           (Holds(th1) /\ Holds(th2) /\ key[th1] # key[th2]
              /\ size_of(TypeOf(th1)) = 0 /\ size_of(TypeOf(th2)) = 0)
           => addr[th1] # addr[th2]

C6_Witness ==
    /\ Holds("t1") /\ Holds("t2")
    /\ key["t1"] = <<"Test", "PhantomUsize">>
    /\ key["t2"] = <<"Test", "PhantomIsize">>

\* ---- C7
\* C7: unsupported target fails the build. A target for which no backend is
\* compiled in never gets past the build: it is never assembled, linked or
\* run.
C7_UnsupportedTargetFailsBuild ==
    Backend(target) = "none" => phase \in {"configure", "build_failed"}

\* ---- C8
\* No thread holds a reference made from a null address.
C8_NoNullReference ==
    \A th \in Threads : pc[th] = "ref" => addr[th] # Null

\* The only step out of the assert with a null address is the panic.
C8_NullPanics ==
    \A th \in Threads :
        /\ (pc[th] = "assert" /\ addr[th] = Null /\ pc'[th] # pc[th])
              => pc'[th] = "panicked"
        /\ pc[th] = "panicked" => pc'[th] = "panicked"

\* C8: null-address abort. No reference is ever returned for a null
\* address; a call that reaches the assert with a null address can only
\* panic, and a panicked call never yields a reference later.
C8_NullAddressAbort == []C8_NoNullReference /\ [][C8_NullPanics]_vars

C8_Witness ==
    \E th \in Threads : pc[th] = "panicked" /\ addr[th] = Null

\* ---- C9
\* Calls in flight or returned for one pair have computed one address.
C9_SameAddress ==
    \A th1, th2 \in Threads :
        (phase = "run" /\ pc[th1] \in {"assert", "ref"}
           /\ pc[th2] \in {"assert", "ref"} /\ key[th1] = key[th2])
        => addr[th1] = addr[th2]

\* Thread th is at a point from which its next step is a step of the accessor.
InAccessor(th) == pc[th] \in {"idle", "asm", "assert"}

\* A step of the accessor leaves the layout and the memory as they are.
C9_AccessorWritesNothing ==
    (phase = "run" /\ \E th \in Threads : InAccessor(th) /\ pc'[th] # pc[th])
    => UNCHANGED <<mem, base, labels, image, salign, hist>>

\* C9: race-free concurrent access. However the calls of several threads
\* interleave, the address computed for one pair is the same in every call,
\* and a step of the accessor changes neither the layout nor the section's
\* address nor any byte of memory: only a caller's store changes memory.
C9_RaceFree == []C9_SameAddress /\ [][C9_AccessorWritesNothing]_vars

C9_Witness ==
    /\ pc["t1"] = "assert" /\ pc["t2"] = "assert"
    /\ key["t1"] = key["t2"]
    /\ addr["t1"] # Null
    /\ hist[key["t1"]] = <<42>>

\* ---- C10
\* C10: slot layout. A returned address is a multiple of align_of(T), the
\* alignment the assembler is given is exactly align_of(T), the block is
\* max(size_of(T), 1) bytes of the loaded section, it shares no byte with
\* another block, and the reference's size_of(T) bytes lie inside it.
C10_SlotLayout ==
    \A th \in Threads :
        Holds(th) =>
            LET b == BlockKey(key[th], th)
                t == TypeOf(th)
            IN /\ addr[th] % align_of(t) = 0
               /\ Pow2(b.align) = align_of(t)
               /\ addr[th] = base + labels[b]
               /\ (size_of(t) = 0 => b.size = 1)
               /\ (size_of(t) > 0 => b.size = size_of(t))
               /\ \A i \in 0..(b.size - 1) : (addr[th] + i) \in DOMAIN mem
               /\ \A b2 \in DOMAIN labels :
                      b2 # b => Disjoint(labels[b], b.size, labels[b2], b2.size)

C10_Witness ==
    \E th \in Threads :
        /\ Holds(th)
        /\ size_of(TypeOf(th)) = 8
        /\ labels[BlockKey(key[th], th)] = 8
        /\ \E b \in DOMAIN labels : b.size = 1 /\ labels[b] = 0

====
